---- MODULE Spec2Model ----
\* A model of the Coinone client of src/sdk.py: the public executor (_get), the
\* private signer (_encode_payload_v21, _sign, _post_v21) and the error classes.
\*
\* Text is modelled literally.  A Python str is a sequence of Unicode code
\* points, a Python bytes object is a sequence of numbers 0..255, and
\* json.dumps, str.encode("utf-8"), base64.b64encode and their inverses are
\* computed character by character.  The HMAC-SHA512 digest is a symbolic
\* term over (key bytes, message bytes).
EXTENDS Integers, Sequences, FiniteSets, TLC

\* ---------------------------------------------------------------- text
\* Named string literals (sequences of code points).
S_access_token == <<97,99,99,101,115,115,95,116,111,107,101,110>>  \* "access_token"
S_nonce == <<110,111,110,99,101>>  \* "nonce"
S_side == <<115,105,100,101>>  \* "side"
S_qty == <<113,116,121>>  \* "qty"
S_BUY == <<66,85,89>>  \* "BUY"
S_tok == <<116,111,107>>  \* "tok"
S_sec == <<115,101,99>>  \* "sec"
S_result == <<114,101,115,117,108,116>>  \* "result"
S_error == <<101,114,114,111,114>>  \* "error"
S_success == <<115,117,99,99,101,115,115>>  \* "success"
S_error_code == <<101,114,114,111,114,95,99,111,100,101>>  \* "error_code"
S_error_msg == <<101,114,114,111,114,95,109,115,103>>  \* "error_msg"
S_4 == <<52>>  \* "4"
S_rate_limit == <<114,97,116,101,32,108,105,109,105,116>>  \* "rate limit"
S_true == <<116,114,117,101>>  \* "true"
S_false == <<102,97,108,115,101>>  \* "false"
S_null == <<110,117,108,108>>  \* "null"
\* A string with a quote, a backslash, a newline and a non-ASCII letter: e"\<LF>é
S_tricky == <<101,34,92,10,233>>

\* The messages the client raises with (src/sdk.py lines 56, 61, 64, 133, 150,
\* 152, 157, 161, 162).
MSG_NEED_CREDENTIALS == <<35843,29992,31169,26377,32,65,80,73,32,38656,35201,25552,20379,32,97,99,99,101,115,115,95,116,111,107,101,110,32,21644,32,115,101,99,114,101,116,95,107,101,121>>
MSG_HTTP_ERROR == <<72,84,84,80,32,38169,35823>>  \* "HTTP 错误"
MSG_HTTP_ERROR_PREFIX == <<72,84,84,80,32,38169,35823,58,32>>  \* "HTTP 错误: "
MSG_INVALID_JSON == <<65,80,73,32,36820,22238,20102,26080,25928,30340,32,74,83,79,78>>  \* "API 返回了无效的 JSON"
MSG_API_ERROR == <<65,80,73,32,38169,35823>>  \* "API 错误"
MSG_RATE_LIMIT == <<35831,27714,39057,29575,36807,39640>>  \* "请求频率过高"

\* Python values: None, str, int, bool.  The field v is always a sequence of
\* numbers: the code points of a str, the one number of an int, 1 or 0 for a bool.
PyNone == [t |-> "none", v |-> <<>>]
PyStr(s) == [t |-> "str", v |-> s]
PyInt(i) == [t |-> "int", v |-> <<i>>]
PyBool(b) == [t |-> "bool", v |-> <<IF b THEN 1 ELSE 0>>]

\* Decimal digits of a natural number, and of an integer.
RECURSIVE NatToDec(_)
NatToDec(n) ==
    IF n < 10 THEN <<48 + n>> ELSE NatToDec(n \div 10) \o <<48 + (n % 10)>>

IntToDec(i) == IF i < 0 THEN <<45>> \o NatToDec(0 - i) ELSE NatToDec(i)

\* str(x) of a Python value.
str(x) ==
    CASE x.t = "none" -> <<78,111,110,101>>  \* "None"
      [] x.t = "str" -> x.v
      [] x.t = "int" -> IntToDec(x.v[1])
      [] x.t = "bool" -> IF x.v[1] = 1 THEN <<84,114,117,101>> ELSE <<70,97,108,115,101>>  \* "True", "False"

\* bool(x): Python truthiness, as "not self.access_token" uses it.
Truthy(x) ==
    CASE x.t = "none" -> FALSE
      [] x.t = "str" -> Len(x.v) > 0
      [] x.t = "int" -> x.v[1] # 0
      [] x.t = "bool" -> x.v[1] = 1

\* ---------------------------------------------------------------- dict
\* A Python dict: a sequence of <<key, value>> pairs in insertion order, the
\* keys distinct.
DictHas(d, k) == \E i \in 1..Len(d) : d[i][1] = k

\* d.get(k, default)
DictGet(d, k, default) == IF DictHas(d, k) THEN d[CHOOSE i \in 1..Len(d) : d[i][1] = k][2] ELSE default

\* d[k] = v: replaces the value in place, or appends the new key.
DictSet(d, k, v) ==
    IF DictHas(d, k)
    THEN [i \in 1..Len(d) |-> IF d[i][1] = k THEN <<k, v>> ELSE d[i]]
    ELSE Append(d, <<k, v>>)

\* if x is not None: d[k] = x
DictSetIfGiven(d, k, x) == IF x = PyNone THEN d ELSE DictSet(d, k, x)

DictKeys(d) == {d[i][1] : i \in 1..Len(d)}

\* ---------------------------------------------------------------- JSON
HexDigit(n) == IF n < 10 THEN 48 + n ELSE 87 + n

\* One character of a JSON string, as json.dumps(..., ensure_ascii=False)
\* writes it: quote, backslash and control characters escaped, the rest kept.
JsonEscapeChar(c) ==
    CASE c = 34 -> <<92, 34>>
      [] c = 92 -> <<92, 92>>
      [] c = 10 -> <<92, 110>>
      [] c = 13 -> <<92, 114>>
      [] c = 9 -> <<92, 116>>
      [] c = 8 -> <<92, 98>>
      [] c = 12 -> <<92, 102>>
      [] c < 32 /\ c \notin {8, 9, 10, 12, 13} ->
            <<92, 117, 48, 48, HexDigit(c \div 16), HexDigit(c % 16)>>
      [] OTHER -> <<c>>

\* Each character in turn.  (The sequence is halved rather than walked, which
\* keeps the evaluation shallow.)
RECURSIVE JsonEscape(_)
JsonEscape(s) ==
    IF s = <<>> THEN <<>>
    ELSE IF Len(s) = 1 THEN JsonEscapeChar(s[1])
    ELSE JsonEscape(SubSeq(s, 1, Len(s) \div 2))
         \o JsonEscape(SubSeq(s, (Len(s) \div 2) + 1, Len(s)))

JsonString(s) == <<34>> \o JsonEscape(s) \o <<34>>

\* A dict key as json.dumps writes it: a str as is, an int, a bool and None
\* turned into a string.
JsonKey(k) ==
    CASE k.t = "str" -> JsonString(k.v)
      [] k.t = "int" -> JsonString(IntToDec(k.v[1]))
      [] k.t = "bool" -> JsonString(IF k.v[1] = 1 THEN S_true ELSE S_false)
      [] k.t = "none" -> JsonString(S_null)

JsonValue(x) ==
    CASE x.t = "str" -> JsonString(x.v)
      [] x.t = "int" -> IntToDec(x.v[1])
      [] x.t = "bool" -> IF x.v[1] = 1 THEN S_true ELSE S_false
      [] x.t = "none" -> S_null

RECURSIVE JsonMembers(_)
JsonMembers(d) ==
    IF d = <<>> THEN <<>>
    ELSE JsonKey(d[1][1]) \o <<58>> \o JsonValue(d[1][2])
         \o (IF Len(d) > 1 THEN <<44>> \o JsonMembers(Tail(d)) ELSE <<>>)

\* json.dumps(body, separators=(",", ":"), ensure_ascii=False) of a flat dict.
JsonDumps(d) == <<123>> \o JsonMembers(d) \o <<125>>

\* json.loads of the text of a flat JSON object (string keys; string, integer,
\* true, false and null values); ok = FALSE stands for the ValueError.
ParseFail == [ok |-> FALSE, val |-> PyNone, pos |-> 0]

ParseOk(val, pos) == [ok |-> TRUE, val |-> val, pos |-> pos]

IsWs(c) == c \in {32, 9, 10, 13}

RECURSIVE SkipWs(_, _)
SkipWs(s, i) == IF i <= Len(s) /\ IsWs(s[i]) THEN SkipWs(s, i + 1) ELSE i

HexVal(c) ==
    CASE c \in 48..57 -> c - 48
      [] c \in 97..102 -> c - 87
      [] c \in 65..70 -> c - 55
      [] OTHER -> -1

UnescapeChar(e) ==
    CASE e = 34 -> 34
      [] e = 92 -> 92
      [] e = 47 -> 47
      [] e = 98 -> 8
      [] e = 102 -> 12
      [] e = 110 -> 10
      [] e = 114 -> 13
      [] e = 116 -> 9
      [] OTHER -> -1

\* The number of backslashes that stand directly before position j.
BackslashRun(s, j) ==
    IF \A k \in 1..(j - 1) : s[k] = 92 THEN j - 1
    ELSE j - 1 - (CHOOSE k \in 1..(j - 1) : s[k] # 92 /\ \A m \in (k + 1)..(j - 1) : s[m] = 92)

\* A quote that opens or closes a string: one that no backslash escapes.
IsQuote(s, j) == s[j] = 34 /\ BackslashRun(s, j) % 2 = 0

\* The closing quote of the string whose first character is at i; 0 when there
\* is none.
StringEnd(s, i) ==
    IF \E j \in i..Len(s) : IsQuote(s, j)
    THEN CHOOSE j \in i..Len(s) : IsQuote(s, j) /\ \A k \in i..(j - 1) : ~IsQuote(s, k)
    ELSE 0

\* The length of the unit (one plain character or one escape) that starts at p,
\* and whether a unit starts at p.
UnitLen(b, p) ==
    IF b[p] # 92 THEN 1 ELSE IF p < Len(b) /\ b[p + 1] = 117 THEN 6 ELSE 2

StartsUnit(b, p) ==
    \A e \in (IF p > 5 THEN p - 5 ELSE 1)..(p - 1) :
        ~(b[e] = 92 /\ BackslashRun(b, e) % 2 = 0 /\ p < e + UnitLen(b, e))

\* One unit: a plain character (control characters are refused), \uXXXX, or a
\* two-character escape.  ok = FALSE is the ValueError.
UnescapeUnit(b) ==
    IF b[1] # 92
    THEN IF b[1] < 32 THEN [ok |-> FALSE, val |-> <<>>] ELSE [ok |-> TRUE, val |-> <<b[1]>>]
    ELSE IF Len(b) < 2 THEN [ok |-> FALSE, val |-> <<>>]
    ELSE IF b[2] = 117
    THEN IF Len(b) < 6 \/ \E j \in 3..6 : HexVal(b[j]) < 0 THEN [ok |-> FALSE, val |-> <<>>]
         ELSE [ok |-> TRUE, val |-> <<4096 * HexVal(b[3]) + 256 * HexVal(b[4])
                                      + 16 * HexVal(b[5]) + HexVal(b[6])>>]
    ELSE IF UnescapeChar(b[2]) < 0 THEN [ok |-> FALSE, val |-> <<>>]
    ELSE [ok |-> TRUE, val |-> <<UnescapeChar(b[2])>>]

\* The unit of b that starts at p; cut short when b ends inside it.
UnitAt(b, p) ==
    SubSeq(b, p, IF p + UnitLen(b, p) - 1 > Len(b) THEN Len(b) ELSE p + UnitLen(b, p) - 1)

\* The units that start at the positions ps of b, in order.  (Unit by unit
\* through their positions rather than by walking b, which keeps the
\* evaluation shallow.)
UnescapeUnits(b, ps) ==
    IF \E n \in 1..Len(ps) : ~UnescapeUnit(UnitAt(b, ps[n])).ok
    THEN [ok |-> FALSE, val |-> <<>>]
    ELSE IF ps = <<>> THEN [ok |-> TRUE, val |-> <<>>]
    ELSE [ok |-> TRUE, val |-> [n \in 1..Len(ps) |-> UnescapeUnit(UnitAt(b, ps[n])).val[1]]]

\* The characters between the quotes, escapes resolved.
Unescape(b) ==
    UnescapeUnits(b, SelectSeq([p \in 1..Len(b) |-> p], LAMBDA p : StartsUnit(b, p)))

StringResult(u, next) == IF u.ok THEN ParseOk(PyStr(u.val), next) ELSE ParseFail

StringUpTo(s, i, e) ==
    IF e = 0 THEN ParseFail ELSE StringResult(Unescape(SubSeq(s, i, e - 1)), e + 1)

\* The string whose first character (after the opening quote) is at i.
ParseStringBody(s, i) == StringUpTo(s, i, StringEnd(s, i))

RECURSIVE ParseDigits(_, _, _)
ParseDigits(s, i, acc) ==
    IF i <= Len(s) /\ s[i] \in 48..57
    THEN ParseDigits(s, i + 1, 10 * acc + (s[i] - 48))
    ELSE ParseOk(PyInt(acc), i)

ParseNat(s, i) ==
    IF i > Len(s) \/ s[i] \notin 48..57 THEN ParseFail
    ELSE IF s[i] = 48 THEN ParseOk(PyInt(0), i + 1)
    ELSE ParseDigits(s, i, 0)

Negated(r) == IF r.ok THEN ParseOk(PyInt(0 - r.val.v[1]), r.pos) ELSE ParseFail

ParseNumber(s, i) == IF s[i] = 45 THEN Negated(ParseNat(s, i + 1)) ELSE ParseNat(s, i)

StartsWith(s, i, lit) ==
    i + Len(lit) - 1 <= Len(s) /\ SubSeq(s, i, i + Len(lit) - 1) = lit

ParseValue(s, i) ==
    IF i > Len(s) THEN ParseFail
    ELSE IF s[i] = 34 THEN ParseStringBody(s, i + 1)
    ELSE IF s[i] = 45 \/ s[i] \in 48..57 THEN ParseNumber(s, i)
    ELSE IF StartsWith(s, i, S_true) THEN ParseOk(PyBool(TRUE), i + 4)
    ELSE IF StartsWith(s, i, S_false) THEN ParseOk(PyBool(FALSE), i + 5)
    ELSE IF StartsWith(s, i, S_null) THEN ParseOk(PyNone, i + 4)
    ELSE ParseFail

\* The whole text must be used up.
ParsedToEnd(s, r) == IF r.ok /\ SkipWs(s, r.pos) = Len(s) + 1 THEN r ELSE ParseFail

\* One member, "key" : value, alone in the text m: the key, the colon, the
\* value, and nothing after it.  The value parsed is the pair <<key, value>>.
MemberValue(m, key, x) == IF x.ok THEN ParseOk(<<key, x.val>>, x.pos) ELSE ParseFail

MemberColon(m, key, i) ==
    IF i > Len(m) \/ m[i] # 58 THEN ParseFail
    ELSE MemberValue(m, key, ParsedToEnd(m, ParseValue(m, SkipWs(m, i + 1))))

MemberKey(m, k) == IF k.ok THEN MemberColon(m, k.val, SkipWs(m, k.pos)) ELSE ParseFail

MemberAt(m, i) ==
    IF i > Len(m) \/ m[i] # 34 THEN ParseFail ELSE MemberKey(m, ParseStringBody(m, i + 1))

ParseMember(m) == MemberAt(m, SkipWs(m, 1))

\* The commas of m that separate members, in order: those outside every string.
MemberCommas(m) ==
    SelectSeq([p \in 1..Len(m) |-> p],
              LAMBDA p : m[p] = 44 /\ Cardinality({q \in 1..(p - 1) : IsQuote(m, q)}) % 2 = 0)

\* The text of the n-th member: from after comma n - 1 to before comma n.
MemberText(m, cs, n) ==
    SubSeq(m, IF n = 1 THEN 1 ELSE cs[n - 1] + 1,
              IF n = Len(cs) + 1 THEN Len(m) ELSE cs[n] - 1)

\* dict(pairs): a key keeps the place of its first pair and takes the value of
\* its last one.  firsts are the indices of the pairs whose key is new.
DictOfPairsAt(ps, firsts) ==
    IF firsts = <<>> THEN <<>>
    ELSE [i \in 1..Len(firsts) |->
            <<ps[firsts[i]][1],
              ps[CHOOSE n \in 1..Len(ps) :
                    /\ ps[n][1] = ps[firsts[i]][1]
                    /\ \A k \in (n + 1)..Len(ps) : ps[k][1] # ps[n][1]][2]>>]

DictOfPairs(ps) ==
    DictOfPairsAt(ps, SelectSeq([n \in 1..Len(ps) |-> n],
                                LAMBDA n : \A k \in 1..(n - 1) : ps[k][1] # ps[n][1]))

MembersDict(rs) ==
    IF \A n \in 1..Len(rs) : rs[n].ok
    THEN ParseOk(DictOfPairs([n \in 1..Len(rs) |-> rs[n].val]), 1)
    ELSE ParseFail

\* The members in the text m, cs the commas that separate them.  (Member by
\* member through the commas rather than by walking m, which keeps the
\* evaluation shallow.)
ParseMembers(m, cs) ==
    MembersDict([n \in 1..(Len(cs) + 1) |-> ParseMember(MemberText(m, cs, n))])

\* The last character of s that is not whitespace; 0 when there is none.
LastNonWs(s) ==
    IF \A k \in 1..Len(s) : IsWs(s[k]) THEN 0
    ELSE CHOOSE k \in 1..Len(s) : ~IsWs(s[k]) /\ \A m \in (k + 1)..Len(s) : IsWs(s[m])

ObjectMembers(m) ==
    IF SkipWs(m, 1) = Len(m) + 1 THEN ParseOk(<<>>, 1) ELSE ParseMembers(m, MemberCommas(m))

\* An object that is the whole text: "{" at a, "}" at z, the members between.
ParseObject(s, a, z) ==
    IF a > Len(s) \/ s[a] # 123 \/ z <= a \/ s[z] # 125 THEN ParseFail
    ELSE ObjectMembers(SubSeq(s, a + 1, z - 1))

JsonLoads(s) == ParseObject(s, SkipWs(s, 1), LastNonWs(s))

\* ---------------------------------------------------------------- UTF-8
Utf8Char(c) ==
    IF c < 128 THEN <<c>>
    ELSE IF c < 2048 THEN <<192 + (c \div 64), 128 + (c % 64)>>
    ELSE IF c < 65536
    THEN <<224 + (c \div 4096), 128 + ((c \div 64) % 64), 128 + (c % 64)>>
    ELSE <<240 + (c \div 262144), 128 + ((c \div 4096) % 64),
           128 + ((c \div 64) % 64), 128 + (c % 64)>>

\* s.encode("utf-8"): the bytes of each character in turn.  (The sequence is
\* halved rather than walked, which keeps the evaluation shallow.)
RECURSIVE Utf8Encode(_)
Utf8Encode(s) ==
    IF s = <<>> THEN <<>>
    ELSE IF Len(s) = 1 THEN Utf8Char(s[1])
    ELSE LET m == Len(s) \div 2
         IN Utf8Encode(SubSeq(s, 1, m)) \o Utf8Encode(SubSeq(s, m + 1, Len(s)))

IsUtf8Continuation(x) == x >= 128 /\ x < 192

\* One character of well-formed UTF-8: its lead byte and continuation bytes.
Utf8DecodeChar(b) ==
    IF b[1] < 128 THEN b[1]
    ELSE IF b[1] < 224 THEN (b[1] - 192) * 64 + (b[2] - 128)
    ELSE IF b[1] < 240 THEN (b[1] - 224) * 4096 + (b[2] - 128) * 64 + (b[3] - 128)
    ELSE (b[1] - 240) * 262144 + (b[2] - 128) * 4096 + (b[3] - 128) * 64 + (b[4] - 128)

\* b.decode("utf-8") of well-formed UTF-8: the characters in order.  (The
\* bytes are halved at a character boundary next to the middle; a character is
\* at most four bytes, so there is one within three bytes of it.)
RECURSIVE Utf8Decode(_)
Utf8Decode(b) ==
    IF b = <<>> THEN <<>>
    ELSE IF Len(b) <= 4 /\ \A i \in 2..Len(b) : IsUtf8Continuation(b[i])
    THEN <<Utf8DecodeChar(b)>>
    ELSE LET mid == Len(b) \div 2
             m == CHOOSE i \in (mid - 3)..(mid + 3) :
                     i >= 1 /\ i < Len(b) /\ ~IsUtf8Continuation(b[i + 1])
         IN Utf8Decode(SubSeq(b, 1, m)) \o Utf8Decode(SubSeq(b, m + 1, Len(b)))

\* ---------------------------------------------------------------- base64
\* The character of a 6-bit value in the standard alphabet.
B64Char(n) ==
    IF n < 26 THEN 65 + n
    ELSE IF n < 52 THEN 97 + (n - 26)
    ELSE IF n < 62 THEN 48 + (n - 52)
    ELSE IF n = 62 THEN 43 ELSE 47

\* One group of base64.b64encode: up to three bytes to four characters, "="
\* padding a short last group.
B64Group(b) ==
    IF Len(b) = 1
    THEN <<B64Char(b[1] \div 4), B64Char((b[1] % 4) * 16), 61, 61>>
    ELSE IF Len(b) = 2
    THEN <<B64Char(b[1] \div 4), B64Char((b[1] % 4) * 16 + (b[2] \div 16)),
           B64Char((b[2] % 16) * 4), 61>>
    ELSE <<B64Char(b[1] \div 4), B64Char((b[1] % 4) * 16 + (b[2] \div 16)),
           B64Char((b[2] % 16) * 4 + (b[3] \div 64)), B64Char(b[3] % 64)>>

\* base64.b64encode(b), the groups of three bytes in order.
RECURSIVE B64Encode(_)
B64Encode(b) ==
    IF b = <<>> THEN <<>>
    ELSE IF Len(b) <= 3 THEN B64Group(b)
    ELSE LET m == 3 * (((Len(b) + 2) \div 3) \div 2)
         IN B64Encode(SubSeq(b, 1, m)) \o B64Encode(SubSeq(b, m + 1, Len(b)))

\* ---------------------------------------------------------------- uuid
UUID_A == <<51,102,50,98,56,99,49,101,45,55,100,52,97,45,52,101,54,98,45,57,97,49,48,45,53,99,48,100,50,101,56,102,55,98,51,49>>  \* "3f2b8c1e-7d4a-4e6b-9a10-5c0d2e8f7b31"
UUID_B == <<97,56,49,100,52,102,97,101,45,55,100,101,99,45,52,49,100,48,45,97,55,54,53,45,48,48,97,48,99,57,49,101,54,98,102,54>>  \* "a81d4fae-7dec-41d0-a765-00a0c91e6bf6"

\* The values str(uuid.uuid4()) may take: a random choice, so any of them, and
\* the same one twice.
Uuid4Strings == {UUID_A, UUID_B}

\* ---------------------------------------------------------------- client
\* String literals of the requests and of the simulated responses.
PUBLIC_BASE_URL == <<104,116,116,112,115,58,47,47,97,112,105,46,99,111,105,110,111,110,101,46,99,111,46,107,114,47,112,117,98,108,105,99,47,118,50>>  \* "https://api.coinone.co.kr/public/v2"
PRIVATE_BASE_URL == <<104,116,116,112,115,58,47,47,97,112,105,46,99,111,105,110,111,110,101,46,99,111,46,107,114>>  \* "https://api.coinone.co.kr"
S_KRW == <<75,82,87>>  \* "KRW"
S_BTC == <<66,84,67>>  \* "BTC"
S_quote_currency == <<113,117,111,116,101,95,99,117,114,114,101,110,99,121>>  \* "quote_currency"
S_target_currency == <<116,97,114,103,101,116,95,99,117,114,114,101,110,99,121>>  \* "target_currency"
S_type == <<116,121,112,101>>  \* "type"
S_price == <<112,114,105,99,101>>  \* "price"
S_amount == <<97,109,111,117,110,116>>  \* "amount"
S_post_only == <<112,111,115,116,95,111,110,108,121>>  \* "post_only"
S_limit_price == <<108,105,109,105,116,95,112,114,105,99,101>>  \* "limit_price"
S_trigger_price == <<116,114,105,103,103,101,114,95,112,114,105,99,101>>  \* "trigger_price"
S_user_order_id == <<117,115,101,114,95,111,114,100,101,114,95,105,100>>  \* "user_order_id"
PATH_orderbook == <<47,111,114,100,101,114,98,111,111,107,47>>  \* "/orderbook/"
PATH_order == <<47,118,50,46,49,47,111,114,100,101,114>>  \* "/v2.1/order"
PATH_balance_all == <<47,118,50,46,49,47,97,99,99,111,117,110,116,47,98,97,108,97,110,99,101,47,97,108,108>>  \* "/v2.1/account/balance/all"
PATH_cancel_all == <<47,118,50,46,49,47,111,114,100,101,114,47,99,97,110,99,101,108,47,97,108,108>>  \* "/v2.1/order/cancel/all"
S_not_json == <<110,111,116,32,106,115,111,110>>  \* "not json"
S_empty_list == <<91,93>>  \* "[]"
S_application_json == <<97,112,112,108,105,99,97,116,105,111,110,47,106,115,111,110>>  \* "application/json"
S_X_COINONE_PAYLOAD == <<88,45,67,79,73,78,79,78,69,45,80,65,89,76,79,65,68>>  \* "X-COINONE-PAYLOAD"
S_X_COINONE_SIGNATURE == <<88,45,67,79,73,78,79,78,69,45,83,73,71,78,65,84,85,82,69>>  \* "X-COINONE-SIGNATURE"
S_Date == <<68,97,116,101>>  \* "Date"
S_x == <<120>>  \* "x"

\* An optional dict (params: Optional[Dict]) and an optional bytes object.
NoDict == [some |-> FALSE, d |-> <<>>]
SomeDict(d) == [some |-> TRUE, d |-> d]
NoBytes == [t |-> "none", v |-> <<>>]
Bytes(b) == [t |-> "bytes", v |-> b]

\* The exceptions a call can end with.  CoinoneAPIError and its subclass
\* CoinoneRateLimitError carry message, code and http_status; the others are
\* exceptions of Python and of requests, which carry none of the three.
APIError(msg, code, http_status) ==
    [cls |-> "CoinoneAPIError", msg |-> msg, code |-> code, http_status |-> http_status]

RateLimitError(msg, code, http_status) ==
    [cls |-> "CoinoneRateLimitError", msg |-> msg, code |-> code,
     http_status |-> http_status]

ForeignError(cls) == [cls |-> cls, msg |-> PyNone, code |-> PyNone, http_status |-> PyNone]

NoError == ForeignError("")

\* isinstance(e, CoinoneAPIError)
IsCoinoneAPIError(e) == e.cls \in {"CoinoneAPIError", "CoinoneRateLimitError"}

\* The value resp.json() returns: a dict, a list, or a scalar.
JNull == [kind |-> "scalar", d |-> <<>>, x |-> PyNone]
JDict(d) == [kind |-> "dict", d |-> d, x |-> PyNone]
JScalar(x) == [kind |-> "scalar", d |-> <<>>, x |-> x]
JList == [kind |-> "list", d |-> <<>>, x |-> PyNone]

\* How a call ends: it returns (j, headers) or raises one exception.
NoOutcome == [kind |-> "none", value |-> JNull, headers |-> <<>>, error |-> NoError]
Returned(j, headers) ==
    [kind |-> "returned", value |-> j, headers |-> headers, error |-> NoError]
Raised(e) == [kind |-> "raised", value |-> JNull, headers |-> <<>>, error |-> e]

\* resp.json(): the body text parsed; ok = FALSE is the ValueError.  Objects
\* are flat, the only list is the empty one.
AsDict(r) == IF r.ok THEN ParseOk(JDict(r.val), r.pos) ELSE ParseFail

AsScalar(r) == IF r.ok THEN ParseOk(JScalar(r.val), r.pos) ELSE ParseFail

JsonLoadsAt(s, i) ==
    IF i > Len(s) THEN ParseFail
    ELSE IF s[i] = 123 THEN AsDict(JsonLoads(s))
    ELSE IF s[i] = 91
    THEN IF s = S_empty_list THEN ParseOk(JList, Len(s) + 1) ELSE ParseFail
    ELSE AsScalar(ParsedToEnd(s, ParseValue(s, i)))

\* The body texts the simulated server answers with.
ErrorBody(code, msg) ==
    JsonDumps(DictSetIfGiven(DictSetIfGiven(<< <<PyStr(S_result), PyStr(S_error)>> >>,
                                            PyStr(S_error_code), code),
                             PyStr(S_error_msg), msg))

BodyTexts ==
    {S_not_json, S_empty_list, JsonString(<<97,98,99>>), IntToDec(4),  \* "abc"
     JsonDumps(<< <<PyStr(S_result), PyStr(S_success)>> >>),
     JsonDumps(<< <<PyStr(S_error_code), PyStr(S_4)>> >>),
     JsonDumps(<< <<PyStr(S_error_msg), PyStr(MSG_INVALID_JSON)>> >>),
     JsonDumps(<< <<PyStr(S_result), PyStr(S_error)>>, <<PyStr(S_error_code), PyNone>> >>),
     ErrorBody(PyStr(S_4), PyStr(S_rate_limit)),
     ErrorBody(PyInt(4), PyNone),
     ErrorBody(PyStr(<<49,48,48>>), PyStr(<<98,97,100,32,112,97,114,97,109>>)),  \* "100", "bad param"
     ErrorBody(PyInt(40), PyStr(S_rate_limit)),
     ErrorBody(PyNone, PyNone)}

\* Each of these texts parsed, once.
BodyJson == [s \in BodyTexts |-> JsonLoadsAt(s, SkipWs(s, 1))]

resp_json(resp) ==
    IF resp.text \in BodyTexts THEN BodyJson[resp.text]
    ELSE JsonLoadsAt(resp.text, SkipWs(resp.text, 1))

\* resp.raise_for_status() raises HTTPError for the statuses 400..599.
RaisesForStatus(resp) == resp.status_code >= 400 /\ resp.status_code < 600

\* str(e) of that HTTPError: it starts with the status code.
HTTPErrorStr(resp) == IntToDec(resp.status_code) \o <<32,69,114,114,111,114>>  \* " Error"

\* j.get("result") == "error" on a dict j.
IsErrorBody(j) == j.kind = "dict" /\ DictGet(j.d, PyStr(S_result), PyNone) = PyStr(S_error)

\* A slip: the ValueError swallowed, the call returning None for the body.
InvalidJsonOutcome_swallowed(resp) == Returned(JNull, resp.headers)

\* The error raised for a body that is not valid JSON (lines 60-61, 156-157).
InvalidJsonOutcome(resp) ==
    Raised(APIError(PyStr(MSG_INVALID_JSON), PyNone, PyInt(resp.status_code)))

\* _get, from the response on (lines 53-66); r is what resp.json() gave.
get_classify(resp, r) ==
    IF RaisesForStatus(resp)
    THEN Raised(APIError(PyStr(MSG_HTTP_ERROR_PREFIX \o HTTPErrorStr(resp)), PyNone,
                         PyInt(resp.status_code)))
    ELSE IF ~r.ok THEN InvalidJsonOutcome(resp)
    ELSE IF IsErrorBody(r.val)
    THEN Raised(APIError(DictGet(r.val.d, PyStr(S_error_msg), PyStr(MSG_API_ERROR)),
                         DictGet(r.val.d, PyStr(S_error_code), PyNone), PyNone))
    ELSE Returned(r.val, resp.headers)

get_outcome(resp) == get_classify(resp, resp_json(resp))

\* A slip: the code compared with "4" without str(), so the number 4 is missed.
IsRateLimitCode_noStr(j) == DictGet(j.d, PyStr(S_error_code), PyNone) = PyStr(S_4)

\* str(j.get("error_code")) == "4"
IsRateLimitCode(j) == str(DictGet(j.d, PyStr(S_error_code), PyNone)) = S_4

\* _post_v21, from the response on (lines 145-164); r is what resp.json() gave.
\* At a failing status the body is parsed and j.get is called on whatever it
\* parsed to: on a list or a scalar that is an AttributeError, which "except
\* ValueError" does not catch.
post_classify(resp, r) ==
    IF RaisesForStatus(resp)
    THEN IF ~r.ok
         THEN Raised(APIError(PyStr(MSG_HTTP_ERROR), PyNone, PyInt(resp.status_code)))
         ELSE IF r.val.kind # "dict" THEN Raised(ForeignError("AttributeError"))
         ELSE Raised(APIError(DictGet(r.val.d, PyStr(S_error_msg), PyStr(MSG_HTTP_ERROR)),
                              DictGet(r.val.d, PyStr(S_error_code), PyNone),
                              PyInt(resp.status_code)))
    ELSE IF ~r.ok THEN InvalidJsonOutcome(resp)
    ELSE IF IsErrorBody(r.val)
    THEN IF IsRateLimitCode(r.val)
         THEN Raised(RateLimitError(DictGet(r.val.d, PyStr(S_error_msg),
                                            PyStr(MSG_RATE_LIMIT)),
                                    DictGet(r.val.d, PyStr(S_error_code), PyNone), PyNone))
         ELSE Raised(APIError(DictGet(r.val.d, PyStr(S_error_msg), PyStr(MSG_API_ERROR)),
                              DictGet(r.val.d, PyStr(S_error_code), PyNone), PyNone))
    ELSE Returned(r.val, resp.headers)

post_outcome(resp) == post_classify(resp, resp_json(resp))

\* _encode_payload_v21(params) with the nonce uuid4 drew: a copy of params,
\* access_token and nonce set in it, compact JSON, UTF-8, base64.
\* (encode_body_noToken is the slip of leaving the access_token line out.)
encode_body_noToken(client, params, nonce) == DictSet(params, PyStr(S_nonce), PyStr(nonce))

encode_body(client, params, nonce) ==
    DictSet(DictSet(params, PyStr(S_access_token), client.access_token),
            PyStr(S_nonce), PyStr(nonce))

encode_payload_v21(client, params, nonce) ==
    B64Encode(Utf8Encode(JsonDumps(encode_body(client, params, nonce))))

\* hmac.new(key, msg, hashlib.sha512).hexdigest(): a term that names the key
\* and the message, so two digests are equal exactly when both are.
HmacSha512Hex(key, msg) == [alg |-> "hmac-sha512-hex", key |-> key, msg |-> msg]

NoSignature == [alg |-> "", key |-> <<>>, msg |-> <<>>]

\* A slip: the digest keyed by the access token.
sign_keyedByToken(client, encoded) ==
    HmacSha512Hex(Utf8Encode(client.access_token.v), encoded)

\* _sign(encoded_payload)
sign(client, encoded) == HmacSha512Hex(Utf8Encode(client.secret_key.v), encoded)

\* A slip: only the access token checked.
CredentialsMissing_tokenOnly(client) == ~Truthy(client.access_token)

\* "not self.access_token or not self.secret_key" (line 132)
CredentialsMissing(client) == ~Truthy(client.access_token) \/ ~Truthy(client.secret_key)

\* The arguments of session.post (lines 135-143) and of session.get (51-52).
post_request(client, path, encoded, signature) ==
    [method |-> "POST", url |-> PRIVATE_BASE_URL \o path, params |-> NoDict,
     data |-> Bytes(encoded),
     headers |-> << <<PyStr(<<67,111,110,116,101,110,116,45,116,121,112,101>>), PyStr(S_application_json)>>,  \* "Content-type"
                    <<PyStr(S_X_COINONE_PAYLOAD), PyStr(Utf8Decode(encoded))>>,
                    <<PyStr(S_X_COINONE_SIGNATURE), signature>> >>,
     timeout |-> client.timeout]

get_request(client, path, params) ==
    [method |-> "GET", url |-> PUBLIC_BASE_URL \o path, params |-> params,
     data |-> NoBytes,
     headers |-> << <<PyStr(<<65,99,99,101,112,116>>), PyStr(S_application_json)>> >>,  \* "Accept"
     timeout |-> client.timeout]

NoRequest ==
    [method |-> "", url |-> <<>>, params |-> NoDict, data |-> NoBytes, headers |-> <<>>,
     timeout |-> 0]

\* ---------------------------------------------------------------- wrappers
\* What each endpoint method hands to _get or _post_v21.  The arguments are
\* Python values; an f-string puts str(x) in the path.

get_orderbook(quote_currency, target_currency, size, order_book_unit) ==
    [method |-> "GET",
     path |-> PATH_orderbook \o str(quote_currency) \o <<47>> \o str(target_currency),  \* "/"
     params |-> SomeDict(DictSetIfGiven(<< <<PyStr(<<115,105,122,101>>), size>> >>,  \* "size"
                                        PyStr(<<111,114,100,101,114,95,98,111,111,107,95,117,110,105,116>>), order_book_unit))]  \* "order_book_unit"

place_order(quote_currency, target_currency, side, type_, price, qty, amount, post_only, limit_price, trigger_price, user_order_id) ==
    LET p0 == << <<PyStr(S_quote_currency), quote_currency>>,
                 <<PyStr(S_target_currency), target_currency>>,
                 <<PyStr(S_side), side>>,
                 <<PyStr(S_type), type_>> >>
        p1 == DictSetIfGiven(p0, PyStr(S_price), price)
        p2 == DictSetIfGiven(p1, PyStr(S_qty), qty)
        p3 == DictSetIfGiven(p2, PyStr(S_amount), amount)
        p4 == IF post_only = PyNone THEN p3
              ELSE DictSet(p3, PyStr(S_post_only), PyBool(Truthy(post_only)))
        p5 == DictSetIfGiven(p4, PyStr(S_limit_price), limit_price)
        p6 == DictSetIfGiven(p5, PyStr(S_trigger_price), trigger_price)
        p7 == DictSetIfGiven(p6, PyStr(S_user_order_id), user_order_id)
    IN [method |-> "POST", path |-> PATH_order, params |-> SomeDict(p7)]

get_balance_all == [method |-> "POST", path |-> PATH_balance_all, params |-> SomeDict(<<>>)]

cancel_all_orders(quote_currency, target_currency) ==
    [method |-> "POST", path |-> PATH_cancel_all,
     params |-> SomeDict(<< <<PyStr(S_quote_currency), quote_currency>>,
                            <<PyStr(S_target_currency), target_currency>> >>)]

\* ---------------------------------------------------------------- inputs
DefaultTimeout == 10

\* The number of calls the callers make in one run.
MaxCalls == 3

\* The threads that call the one client.
Threads == {"t1", "t2"}

\* __init__(access_token, secret_key, session, timeout): the fields the calls
\* read.  (The session is the transport; its behaviour is the responses below.)
CoinoneClient(access_token, secret_key, timeout) ==
    [access_token |-> access_token, secret_key |-> secret_key, timeout |-> timeout]

\* The clients the callers construct: with both credentials, with neither, and
\* with one of them None or empty.
Clients ==
    {CoinoneClient(c[1], c[2], DefaultTimeout) :
        c \in {<<PyStr(S_tok), PyStr(S_sec)>>, <<PyNone, PyNone>>,
               <<PyNone, PyStr(S_sec)>>, <<PyStr(<<>>), PyStr(S_sec)>>,
               <<PyStr(S_tok), PyNone>>, <<PyStr(S_tok), PyStr(<<>>)>>}}

PublicCalls == {get_orderbook(PyStr(S_KRW), PyStr(S_BTC), PyInt(15), PyNone)}

PrivateCalls ==
    {get_balance_all,
     cancel_all_orders(PyStr(S_KRW), PyStr(S_BTC)),
     place_order(PyStr(S_KRW), PyStr(S_BTC), PyStr(S_BUY), PyStr(<<76,73,77,73,84>>), PyStr(<<49,48,48,48>>), PyNone,  \* "LIMIT", "1000"
                 PyNone, PyBool(TRUE), PyNone, PyNone, PyNone)}

\* The simulated responses: status, body text, headers.
Headers1 == << <<PyStr(S_Date), PyStr(<<100,49>>)>> >>  \* "d1"

Headers2 == << <<PyStr(S_Date), PyStr(<<100,50>>)>> >>  \* "d2"

Response(status_code, text, headers) ==
    [status_code |-> status_code, text |-> text, headers |-> headers]

Responses ==
    {Response(s, b, Headers1) : s \in {200, 500}, b \in BodyTexts}
    \cup {Response(201, JsonDumps(<< <<PyStr(S_result), PyStr(S_success)>> >>), Headers2),
          Response(201, S_not_json, Headers2),
          Response(404, S_not_json, Headers2),
          Response(404, S_empty_list, Headers2),
          Response(404, ErrorBody(PyStr(S_4), PyStr(S_rate_limit)), Headers2)}

NoResponse == [status_code |-> 0, text |-> <<>>, headers |-> <<>>]

\* What session.get and session.post raise when no response arrives.
TransportExceptions == {"requests.Timeout", "requests.ConnectionError"}

\* ---------------------------------------------------------------- state
VARIABLES
    client,     \* the client's fields access_token, secret_key, timeout
    ncalls,     \* the calls started so far
    pc,         \* where each thread is in its call
    call,       \* the method and path of each thread's call
    params,     \* the caller's params object of each thread's call
    encoded,    \* _post_v21's local encoded
    signature,  \* _post_v21's local signature
    req,        \* what the call handed to session.get or session.post
    sent,       \* the requests the thread's current call has issued
    resp,       \* the response the call received
    outcome     \* how the call ended

vars == <<client, ncalls, pc, call, params, encoded, signature, req, sent, resp, outcome>>

NoCall == [method |-> "", path |-> <<>>]

Init ==
    /\ client \in Clients
    /\ ncalls = 0
    /\ pc = [t \in Threads |-> "idle"]
    /\ call = [t \in Threads |-> NoCall]
    /\ params = [t \in Threads |-> NoDict]
    /\ encoded = [t \in Threads |-> NoBytes]
    /\ signature = [t \in Threads |-> NoSignature]
    /\ req = [t \in Threads |-> NoRequest]
    /\ sent = [t \in Threads |-> 0]
    /\ resp = [t \in Threads |-> NoResponse]
    /\ outcome = [t \in Threads |-> NoOutcome]

\* A thread whose last call has ended starts the call c.
Begin(t, c, first) ==
    /\ pc[t] \in {"idle", "done"}
    /\ ncalls < MaxCalls
    /\ ncalls' = ncalls + 1
    /\ pc' = [pc EXCEPT ![t] = first]
    /\ call' = [call EXCEPT ![t] = [method |-> c.method, path |-> c.path]]
    /\ params' = [params EXCEPT ![t] = c.params]
    /\ encoded' = [encoded EXCEPT ![t] = NoBytes]
    /\ signature' = [signature EXCEPT ![t] = NoSignature]
    /\ req' = [req EXCEPT ![t] = NoRequest]
    /\ sent' = [sent EXCEPT ![t] = 0]
    /\ resp' = [resp EXCEPT ![t] = NoResponse]
    /\ outcome' = [outcome EXCEPT ![t] = NoOutcome]
    /\ UNCHANGED client

\* A public endpoint method calls _get.
CallPublic(t) == \E c \in PublicCalls : Begin(t, c, "get_send")

\* A private endpoint method calls _post_v21.
CallPrivate(t) == \E c \in PrivateCalls : Begin(t, c, "post_check")

\* The call ends: its frame is gone, its outcome is the caller's.
Finish(t, o) ==
    /\ pc' = [pc EXCEPT ![t] = "done"]
    /\ outcome' = [outcome EXCEPT ![t] = o]
    /\ encoded' = [encoded EXCEPT ![t] = NoBytes]
    /\ signature' = [signature EXCEPT ![t] = NoSignature]
    /\ req' = [req EXCEPT ![t] = NoRequest]

\* _get: session.get(url, params=params, timeout=self.timeout, headers=...)
SessionGet(t) ==
    /\ pc[t] = "get_send"
    /\ pc' = [pc EXCEPT ![t] = "get_wait"]
    /\ req' = [req EXCEPT ![t] = get_request(client, call[t].path, params[t])]
    /\ sent' = [sent EXCEPT ![t] = @ + 1]
    /\ UNCHANGED <<client, ncalls, call, params, encoded, signature, resp, outcome>>

\* _get: the response arrives and is classified.
GetRespond(t) ==
    /\ pc[t] = "get_wait"
    /\ \E r \in Responses :
          /\ resp' = [resp EXCEPT ![t] = r]
          /\ Finish(t, get_outcome(r))
    /\ UNCHANGED <<client, ncalls, call, params, sent>>

\* _post_v21: the credentials check (lines 132-133).
PostCheck(t) ==
    /\ pc[t] = "post_check"
    /\ IF CredentialsMissing(client)
       THEN Finish(t, Raised(APIError(PyStr(MSG_NEED_CREDENTIALS), PyNone, PyNone)))
       ELSE /\ pc' = [pc EXCEPT ![t] = "post_encode"]
            /\ UNCHANGED <<outcome, encoded, signature, req>>
    /\ UNCHANGED <<client, ncalls, call, params, sent, resp>>

\* A slip: body = params instead of dict(params), so the two injected keys land
\* in the caller's dict.
EncodePayload_inPlace(t) ==
    /\ pc[t] = "post_encode"
    /\ \E nonce \in Uuid4Strings :
          /\ encoded' = [encoded EXCEPT
                            ![t] = Bytes(encode_payload_v21(client, params[t].d, nonce))]
          /\ params' = [params EXCEPT
                           ![t] = SomeDict(encode_body(client, params[t].d, nonce))]
    /\ pc' = [pc EXCEPT ![t] = "post_sign"]
    /\ UNCHANGED <<client, ncalls, call, signature, req, sent, resp, outcome>>

\* _post_v21: encoded = self._encode_payload_v21(params) (line 136).
EncodePayload(t) ==
    /\ pc[t] = "post_encode"
    /\ \E nonce \in Uuid4Strings :
          encoded' = [encoded EXCEPT
                         ![t] = Bytes(encode_payload_v21(client, params[t].d, nonce))]
    /\ pc' = [pc EXCEPT ![t] = "post_sign"]
    /\ UNCHANGED <<client, ncalls, call, params, signature, req, sent, resp, outcome>>

\* _post_v21: signature = self._sign(encoded) (line 137).  With secret_key None
\* the call of None.encode is an AttributeError.
Sign(t) ==
    /\ pc[t] = "post_sign"
    /\ IF client.secret_key.t # "str"
       THEN Finish(t, Raised(ForeignError("AttributeError")))
       ELSE /\ signature' = [signature EXCEPT ![t] = sign(client, encoded[t].v)]
            /\ pc' = [pc EXCEPT ![t] = "post_send"]
            /\ UNCHANGED <<outcome, encoded, req>>
    /\ UNCHANGED <<client, ncalls, call, params, sent, resp>>

\* _post_v21: session.post(url, data=encoded, headers=headers, timeout=...).
SessionPost(t) ==
    /\ pc[t] = "post_send"
    /\ pc' = [pc EXCEPT ![t] = "post_wait"]
    /\ req' = [req EXCEPT
                  ![t] = post_request(client, call[t].path, encoded[t].v, signature[t])]
    /\ sent' = [sent EXCEPT ![t] = @ + 1]
    /\ UNCHANGED <<client, ncalls, call, params, encoded, signature, resp, outcome>>

\* A slip: the call posts again by itself when the server answers with the
\* rate-limit code.
PostRespond_retry(t) ==
    /\ pc[t] = "post_wait"
    /\ \E r \in Responses :
          /\ resp' = [resp EXCEPT ![t] = r]
          /\ IF post_outcome(r).error.cls = "CoinoneRateLimitError"
             THEN /\ pc' = [pc EXCEPT ![t] = "post_send"]
                  /\ UNCHANGED <<outcome, encoded, signature, req>>
             ELSE Finish(t, post_outcome(r))
    /\ UNCHANGED <<client, ncalls, call, params, sent>>

\* _post_v21: the response arrives and is classified.
PostRespond(t) ==
    /\ pc[t] = "post_wait"
    /\ \E r \in Responses :
          /\ resp' = [resp EXCEPT ![t] = r]
          /\ Finish(t, post_outcome(r))
    /\ UNCHANGED <<client, ncalls, call, params, sent>>

\* session.get or session.post raises instead of returning: a timeout or a
\* connection failure.  Neither _get nor _post_v21 catches it.
TransportFail(t) ==
    /\ pc[t] \in {"get_wait", "post_wait"}
    /\ \E e \in TransportExceptions : Finish(t, Raised(ForeignError(e)))
    /\ UNCHANGED <<client, ncalls, call, params, sent, resp>>

Next ==
    \E t \in Threads :
        \/ CallPublic(t)
        \/ CallPrivate(t)
        \/ SessionGet(t)
        \/ GetRespond(t)
        \/ PostCheck(t)
        \/ EncodePayload(t)
        \/ Sign(t)
        \/ SessionPost(t)
        \/ PostRespond(t)
        \/ TransportFail(t)

Spec == Init /\ [][Next]_vars

\* ---------------------------------------------------------------- payload
\* _encode_payload_v21 on its own: any client, any parameter mapping.
EncodeClients ==
    {CoinoneClient(a, PyStr(S_sec), DefaultTimeout) :
        a \in {PyStr(S_tok), PyStr(S_tricky), PyNone}}

ParamMappings ==
    {<<>>,
     << <<PyStr(S_side), PyStr(S_BUY)>>, <<PyStr(S_qty), PyInt(-15)>> >>,
     << <<PyStr(S_tricky), PyStr(S_tricky)>>, <<PyStr(S_post_only), PyBool(TRUE)>>,
        <<PyStr(S_x), PyNone>> >>,
     << <<PyStr(MSG_RATE_LIMIT), PyStr(MSG_NEED_CREDENTIALS)>>, <<PyStr(<<>>), PyBool(FALSE)>> >>,
     << <<PyStr(S_nonce), PyStr(S_x)>>, <<PyStr(S_side), PyStr(S_BUY)>> >>,
     << <<PyStr(S_access_token), PyStr(S_x)>> >>,
     << <<PyInt(1), PyStr(S_x)>> >>}

InitEncode ==
    /\ client \in EncodeClients
    /\ ncalls = 0
    /\ pc = [t \in Threads |-> "post_encode"]
    /\ call = [t \in Threads |-> [method |-> "POST", path |-> PATH_order]]
    /\ params \in [Threads -> {SomeDict(p) : p \in ParamMappings}]
    /\ encoded = [t \in Threads |-> NoBytes]
    /\ signature = [t \in Threads |-> NoSignature]
    /\ req = [t \in Threads |-> NoRequest]
    /\ sent = [t \in Threads |-> 0]
    /\ resp = [t \in Threads |-> NoResponse]
    /\ outcome = [t \in Threads |-> NoOutcome]

NextEncode == \E t \in Threads : EncodePayload(t)

SpecEncode == InitEncode /\ [][NextEncode]_vars

\* ---------------------------------------------------------------- properties
PrivateCall(t) == call[t].method = "POST"

PublicCall(t) == call[t].method = "GET"

Answered(t) == pc[t] = "done" /\ resp[t] # NoResponse

\* A success HTTP status.
HttpSuccess(status) == status \in 200..299

\* A credential that is absent or the empty string.
AbsentOrEmpty(x) == x = PyNone \/ x = PyStr(<<>>)

ConfigurationError == APIError(PyStr(MSG_NEED_CREDENTIALS), PyNone, PyNone)

\* C1: a private call on a client whose access_token or secret_key is None or
\* empty raises the configuration error, and it issues no request, builds no
\* payload and computes no signature.
C1_NoRequestWithoutCredentials ==
    \A t \in Threads :
        (PrivateCall(t) /\ (AbsentOrEmpty(client.access_token)
                            \/ AbsentOrEmpty(client.secret_key))) =>
            /\ sent[t] = 0
            /\ encoded[t] = NoBytes
            /\ signature[t] = NoSignature
            /\ req[t] = NoRequest
            /\ pc[t] = "done" => outcome[t] = Raised(ConfigurationError)

\* A private call on a client with a token and no secret key has ended.
C1_Witness ==
    \E t \in Threads :
        /\ PrivateCall(t)
        /\ pc[t] = "done"
        /\ client.access_token = PyStr(S_tok)
        /\ client.secret_key = PyNone
        /\ outcome[t].kind = "raised"

\* The body of the response t received parses to a mapping with result "error".
ErrorMapping(t) ==
    /\ resp_json(resp[t]).ok
    /\ resp_json(resp[t]).val.kind = "dict"
    /\ DictGet(resp_json(resp[t]).val.d, PyStr(S_result), PyNone) = PyStr(S_error)

ServerCode(t) == DictGet(resp_json(resp[t]).val.d, PyStr(S_error_code), PyNone)

ServerMsg(t, fallback) == DictGet(resp_json(resp[t]).val.d, PyStr(S_error_msg), fallback)

RateLimited(t) ==
    /\ PrivateCall(t)
    /\ Answered(t)
    /\ HttpSuccess(resp[t].status_code)
    /\ ErrorMapping(t)
    /\ ServerCode(t) \in {PyStr(S_4), PyInt(4)}

C3_NonSuccessStatusRaisesApiError ==
    \A t \in Threads :
        (PrivateCall(t) /\ Answered(t) /\ ~HttpSuccess(resp[t].status_code)) =>
            /\ outcome[t].kind = "raised"
            /\ IsCoinoneAPIError(outcome[t].error)
            /\ outcome[t].error.http_status = PyInt(resp[t].status_code)

\* C4: every call that fails raises an error of the CoinoneAPIError taxonomy.
C4_EveryFailureInTaxonomy ==
    \A t \in Threads :
        (pc[t] = "done" /\ outcome[t].kind = "raised") =>
            IsCoinoneAPIError(outcome[t].error)

RequestHeader(t, name) == DictGet(req[t].headers, PyStr(name), PyNone)

\* C5: what a private call sends is bound to the one payload E of that call:
\* the body is E, X-COINONE-PAYLOAD is the text of E, X-COINONE-SIGNATURE is
\* the HMAC-SHA512 of E under the secret key, and E is the encoding of that
\* call's parameters.
C5_RequestBoundToOnePayload ==
    \A t \in Threads :
        req[t].method = "POST" =>
            /\ req[t].data = encoded[t]
            /\ RequestHeader(t, S_X_COINONE_PAYLOAD).t = "str"
            /\ Utf8Encode(RequestHeader(t, S_X_COINONE_PAYLOAD).v) = req[t].data.v
            /\ RequestHeader(t, S_X_COINONE_SIGNATURE)
                   = HmacSha512Hex(Utf8Encode(client.secret_key.v), req[t].data.v)
            /\ \E nonce \in Uuid4Strings :
                   req[t].data.v
                       = B64Encode(Utf8Encode(JsonDumps(
                             DictSet(DictSet(params[t].d, PyStr(S_access_token),
                                             client.access_token),
                                     PyStr(S_nonce), PyStr(nonce)))))

\* Two private calls with different payloads are both on the network.
C5_Witness ==
    \E t1, t2 \in Threads :
        /\ req[t1].method = "POST"
        /\ req[t2].method = "POST"
        /\ req[t1].data # req[t2].data

\* The mapping a payload decodes to: base64-decoded, UTF-8-decoded, JSON-parsed.
\* What the receiver of a payload does with it: base64.b64decode, then
\* json.loads of the decoded text.
B64Val(c) ==
    CASE c \in 65..90 -> c - 65
      [] c \in 97..122 -> c - 97 + 26
      [] c \in 48..57 -> c - 48 + 52
      [] c = 43 -> 62
      [] c = 47 -> 63
      [] OTHER -> -1

\* One group of base64.b64decode: four characters to up to three bytes.
B64Ungroup(e) ==
    LET a == B64Val(e[1])
        b == B64Val(e[2])
        c == B64Val(e[3])
        d == B64Val(e[4])
    IN IF e[3] = 61 THEN <<a * 4 + (b \div 16)>>
       ELSE IF e[4] = 61 THEN <<a * 4 + (b \div 16), (b % 16) * 16 + (c \div 4)>>
       ELSE <<a * 4 + (b \div 16), (b % 16) * 16 + (c \div 4), (c % 4) * 64 + d>>

\* base64.b64decode(e) of padded base64 text.
RECURSIVE B64Decode(_)
B64Decode(e) ==
    IF Len(e) < 4 THEN <<>>
    ELSE IF Len(e) < 8 THEN B64Ungroup(e)
    ELSE LET m == 4 * ((Len(e) \div 4) \div 2)
         IN B64Decode(SubSeq(e, 1, m)) \o B64Decode(SubSeq(e, m + 1, Len(e)))

IsLowerHex(c) == c \in 48..57 \/ c \in 97..102

\* The canonical text of a version-4 UUID: 8-4-4-4-12 lowercase hex digits,
\* version digit 4, variant digit 8, 9, a or b.
WellFormedUuid4(s) ==
    /\ Len(s) = 36
    /\ \A i \in 1..36 :
          IF i \in {9, 14, 19, 24} THEN s[i] = 45 ELSE IsLowerHex(s[i])
    /\ s[15] = 52
    /\ s[20] \in {56, 57, 97, 98}

Decoded(t) == JsonLoads(Utf8Decode(B64Decode(encoded[t].v)))

InjectedKeys == {PyStr(S_access_token), PyStr(S_nonce)}

InjectedRecovered(M) ==
    /\ DictHas(M, PyStr(S_access_token))
    /\ DictGet(M, PyStr(S_access_token), PyNone) = client.access_token
    /\ DictHas(M, PyStr(S_nonce))
    /\ DictGet(M, PyStr(S_nonce), PyNone).t = "str"
    /\ WellFormedUuid4(DictGet(M, PyStr(S_nonce), PyNone).v)

\* C7 as stated: the decoded payload M has M[k] = P[k] for every key k of P,
\* the client's access_token, a well-formed nonce, and no other key.
C7_RoundTripEveryKey ==
    \A t \in Threads :
        encoded[t] # NoBytes =>
            /\ Decoded(t).ok
            /\ \A k \in DictKeys(params[t].d) :
                  /\ DictHas(Decoded(t).val, k)
                  /\ DictGet(Decoded(t).val, k, PyNone) = DictGet(params[t].d, k, PyNone)
            /\ InjectedRecovered(Decoded(t).val)
            /\ DictKeys(Decoded(t).val) = DictKeys(params[t].d) \cup InjectedKeys

\* C7, amended: for a mapping P with string keys, M[k] = P[k] for every key k
\* of P other than "access_token" and "nonce", M has the client's access_token
\* and a well-formed nonce, and M has no key besides these.
C7_RoundTripOwnKeys ==
    \A t \in Threads :
        (encoded[t] # NoBytes /\ \A k \in DictKeys(params[t].d) : k.t = "str") =>
            /\ Decoded(t).ok
            /\ \A k \in DictKeys(params[t].d) \ InjectedKeys :
                  /\ DictHas(Decoded(t).val, k)
                  /\ DictGet(Decoded(t).val, k, PyNone) = DictGet(params[t].d, k, PyNone)
            /\ InjectedRecovered(Decoded(t).val)
            /\ DictKeys(Decoded(t).val) = DictKeys(params[t].d) \cup InjectedKeys

\* A payload was built from a mapping with quote, backslash, newline and
\* non-ASCII characters, and another from a mapping that has its own "nonce".
C7_Witness ==
    \E t1, t2 \in Threads :
        /\ encoded[t1] # NoBytes
        /\ DictHas(params[t1].d, PyStr(S_tricky))
        /\ encoded[t2] # NoBytes
        /\ DictHas(params[t2].d, PyStr(S_nonce))

\* The errors each executor raises for the responses with a non-success status.
FailedResponses == {r \in Responses : ~HttpSuccess(r.status_code)}

GetTransportFailures == {get_outcome(r).error : r \in FailedResponses}

PostTransportFailures == {post_outcome(r).error : r \in FailedResponses}

\* C8: on both executors a response with a success status and a body that is
\* not valid JSON raises the format failure, returns nothing, and the error
\* differs from every error raised for a non-success status.
C8_InvalidJsonIsFormatFailure ==
    \A t \in Threads :
        (Answered(t) /\ HttpSuccess(resp[t].status_code) /\ ~resp_json(resp[t]).ok) =>
            /\ outcome[t]
                   = Raised(APIError(PyStr(MSG_INVALID_JSON), PyNone,
                                     PyInt(resp[t].status_code)))
            /\ PublicCall(t) => outcome[t].error \notin GetTransportFailures
            /\ PrivateCall(t) => outcome[t].error \notin PostTransportFailures

\* A public and a private call were both answered 200 with "not json".
C8_Witness ==
    \E t1, t2 \in Threads :
        /\ PublicCall(t1) /\ Answered(t1)
        /\ PrivateCall(t2) /\ Answered(t2)
        /\ \A t \in {t1, t2} : resp[t].status_code = 200 /\ resp[t].text = S_not_json

\* C9: a call issues at most one request and ends either returning the parsed
\* body with the response headers or raising one error; once it has ended
\* nothing more is sent until the caller starts a new call.
C9_OneRequestOneOutcome ==
    [][\A t \in Threads :
          /\ sent'[t] <= 1
          /\ pc'[t] = "done" =>
                \/ /\ outcome'[t].kind = "returned"
                   /\ outcome'[t].error = NoError
                   /\ resp_json(resp'[t]).ok
                   /\ outcome'[t].value = resp_json(resp'[t]).val
                   /\ outcome'[t].headers = resp'[t].headers
                \/ /\ outcome'[t].kind = "raised"
                   /\ outcome'[t].error # NoError
                   /\ outcome'[t].value = JNull
                   /\ outcome'[t].headers = <<>>
          /\ pc'[t] # "done" => outcome'[t] = NoOutcome
          /\ pc[t] = "done" =>
                \/ sent'[t] = sent[t] /\ outcome'[t] = outcome[t] /\ pc'[t] = "done"
                \/ pc'[t] \in {"get_send", "post_check"} /\ sent'[t] = 0]_vars

\* A private call raised the rate-limit error after its one request.
C9_Witness ==
    \E t \in Threads :
        /\ pc[t] = "done"
        /\ outcome[t].error.cls = "CoinoneRateLimitError"
        /\ sent[t] = 1

\* C10: no step of any call changes the client's access_token, secret_key or
\* timeout, and no step of a call changes the caller's parameter mapping.
C10_ClientAndParamsUntouched ==
    [][/\ client' = client
       /\ \A t \in Threads : pc[t] \notin {"idle", "done"} => params'[t] = params[t]]_vars

\* A private call with parameters has returned while the other thread's
\* private call is in flight.
C10_Witness ==
    \E t1, t2 \in Threads :
        /\ PrivateCall(t1)
        /\ pc[t1] = "done"
        /\ outcome[t1].kind = "returned"
        /\ params[t1].d # <<>>
        /\ pc[t2] = "post_wait"

====
